---- MODULE Spec2Model ----
(***************************************************************************)
(* Model of playing-with-money (src/src/main.rs): a batch ledger that      *)
(* reads a chronological stream of Deposit / Withdrawal / Dispute /        *)
(* Resolve / Chargeback records, applies each to the owning ClientState,   *)
(* and writes the per-client snapshot once the whole stream has been read. *)
(*                                                                         *)
(* Amounts are Decimal values already rounded to PRECISION fractional      *)
(* digits; they are represented as integers counting units of 10^-4.       *)
(***************************************************************************)
EXTENDS Integers, Sequences, FiniteSets, TLC

\* ---------------------------------------------------------------- bounds
MaxClient == 2
MaxTx == 2
MaxAmount == 2
MaxRecords == 4
\* the two-run specification: its clients and the length of its streams
ReplayClients == 1
ReplayMaxRecords == 5
\* the interleaving specification: the length of its streams
InterleaveMaxRecords == 3

ClientIds == 1..MaxClient
TxIds == 1..MaxTx
\* amounts are signed decimals: the parser accepts a leading minus sign
Amounts == (0 - 1)..MaxAmount
\* a Dispute / Resolve / Chargeback row usually has an empty amount (zero),
\* but the field is parsed like any other and may carry a value
ReferenceAmounts == {0, MaxAmount}

\* ------------------------------------------------------------ data model
TransactionType == {"Withdrawal", "Deposit", "Dispute", "Resolve", "Chargeback"}

Record ==
    [transaction_type : {"Withdrawal", "Deposit"},
     client_id : ClientIds, transaction_id : TxIds, amount : Amounts]
    \cup
    [transaction_type : {"Dispute", "Resolve", "Chargeback"},
     client_id : ClientIds, transaction_id : TxIds, amount : ReferenceAmounts]

SituatedRecord(monotonic_counter, record) ==
    [monotonic_counter |-> monotonic_counter, record |-> record]

\* HashMap<K, V> is a function whose domain is the set of keys present.
EmptyMap == [k \in {} |-> 0]

MapInsert(m, key, value) ==
    [k \in DOMAIN m \cup {key} |-> IF k = key THEN value ELSE m[k]]

ClientState_new(client_id) ==
    [client_id |-> client_id,
     available_funds |-> 0,
     held_funds |-> 0,
     locked |-> FALSE,
     client_transactions |-> EmptyMap]

get_available_funds(self) == self.available_funds

get_held_funds(self) == self.held_funds

\* mutant: the total leaves the held funds out
get_total_funds_AvailableOnly(self) == self.available_funds

get_total_funds(self) == self.held_funds + self.available_funds

is_locked(self) == self.locked

\* the value a method leaves behind: the ClientState after the call, the bool
\* it returns and the log line it emitted ("none" when it logs nothing)
Outcome(self, ret, log) == [state |-> self, ret |-> ret, log |-> log]

\* --------------------------------------------------------- the ledger core
\* mutant: the funds check is missing, every Withdrawal is debited
SufficientFunds_Overdraft(amount, self) == TRUE

\* mutant: a Withdrawal of the whole available amount is refused
SufficientFunds_Strict(amount, self) == amount < self.available_funds

SufficientFunds(amount, self) == amount <= self.available_funds

\* mutant: a locked client cannot deposit either
transact_withdrawal_or_deposit_LockedDeposit(self, situated_record) ==
    LET amount == situated_record.record.amount
        tx_type == situated_record.record.transaction_type
    IN  CASE tx_type = "Withdrawal" /\ ~self.locked ->
                IF amount <= self.available_funds
                THEN Outcome([self EXCEPT !.available_funds = @ - amount], TRUE, "none")
                ELSE Outcome(self, TRUE, "warn_insufficient_funds")
          [] tx_type = "Withdrawal" /\ self.locked ->
                Outcome(self, TRUE, "warn_withdrawal_frozen")
          [] tx_type = "Deposit" /\ ~self.locked ->
                Outcome([self EXCEPT !.available_funds = @ + amount], TRUE, "none")
          [] OTHER -> Outcome(self, FALSE, "none")

transact_withdrawal_or_deposit(self, situated_record) ==
    LET amount == situated_record.record.amount
        tx_type == situated_record.record.transaction_type
    IN  CASE tx_type = "Withdrawal" /\ ~self.locked ->
                IF SufficientFunds(amount, self)
                THEN Outcome([self EXCEPT !.available_funds = @ - amount], TRUE, "none")
                ELSE Outcome(self, TRUE, "warn_insufficient_funds")
          [] tx_type = "Withdrawal" /\ self.locked ->
                Outcome(self, TRUE, "warn_withdrawal_frozen")
          [] tx_type = "Deposit" ->
                Outcome([self EXCEPT !.available_funds = @ + amount], TRUE, "none")
          [] OTHER -> Outcome(self, FALSE, "none")

push_transaction(self, tx_id, record) ==
    LET entry == IF tx_id \in DOMAIN self.client_transactions
                 THEN self.client_transactions[tx_id]
                 ELSE <<>>
    IN  [self EXCEPT !.client_transactions = MapInsert(@, tx_id, Append(entry, record))]

\* Iterator::find over a transaction history with the predicate
\* "is a Withdrawal or a Deposit": the index of the first match, 0 for None
RECURSIVE FindPostedFrom(_, _)
FindPostedFrom(all_prev_record, i) ==
    IF i > Len(all_prev_record) THEN 0
    ELSE IF all_prev_record[i].record.transaction_type \in {"Withdrawal", "Deposit"}
         THEN i
         ELSE FindPostedFrom(all_prev_record, i + 1)

FindPosted(all_prev_record) == FindPostedFrom(all_prev_record, 1)

\* mutant: the Dispute moves its own amount, not that of the posted record
transact_dispute_OwnAmount(self, dispute) ==
    LET tx_id == dispute.record.transaction_id
    IN  IF tx_id \in DOMAIN self.client_transactions
        THEN LET all_prev_record == self.client_transactions[tx_id]
                 found == FindPosted(all_prev_record)
             IN  IF found # 0
                 THEN LET disputed_target == all_prev_record[found]
                          prev_amount == dispute.record.amount
                      IN  CASE disputed_target.record.transaction_type = "Withdrawal" ->
                                  Outcome([self EXCEPT !.held_funds = @ + prev_amount],
                                          TRUE, "none")
                            [] disputed_target.record.transaction_type = "Deposit" ->
                                  Outcome([self EXCEPT !.available_funds = @ - prev_amount,
                                                       !.held_funds = @ + prev_amount],
                                          TRUE, "none")
                            [] OTHER -> Outcome(self, TRUE, "none")
                 ELSE Outcome(self, FALSE, "warn_dispute_no_target")
        ELSE Outcome(self, FALSE, "error_internal_state")

\* mutant: a disputed Deposit takes from available no more than is there
transact_dispute_Clamped(self, dispute) ==
    LET tx_id == dispute.record.transaction_id
    IN  IF tx_id \in DOMAIN self.client_transactions
        THEN LET all_prev_record == self.client_transactions[tx_id]
                 found == FindPosted(all_prev_record)
             IN  IF found # 0
                 THEN LET disputed_target == all_prev_record[found]
                          prev_amount == disputed_target.record.amount
                      IN  CASE disputed_target.record.transaction_type = "Withdrawal" ->
                                  Outcome([self EXCEPT !.held_funds = @ + prev_amount],
                                          TRUE, "none")
                            [] disputed_target.record.transaction_type = "Deposit" ->
                                  Outcome([self EXCEPT
                                               !.available_funds =
                                                   IF @ - prev_amount < 0 THEN 0
                                                   ELSE @ - prev_amount,
                                               !.held_funds = @ + prev_amount],
                                          TRUE, "none")
                            [] OTHER -> Outcome(self, TRUE, "none")
                 ELSE Outcome(self, FALSE, "warn_dispute_no_target")
        ELSE Outcome(self, FALSE, "error_internal_state")

transact_dispute(self, dispute) ==
    LET tx_id == dispute.record.transaction_id
    IN  IF tx_id \in DOMAIN self.client_transactions
        THEN LET all_prev_record == self.client_transactions[tx_id]
                 found == FindPosted(all_prev_record)
             IN  IF found # 0
                 THEN LET disputed_target == all_prev_record[found]
                          prev_amount == disputed_target.record.amount
                      IN  CASE disputed_target.record.transaction_type = "Withdrawal" ->
                                  Outcome([self EXCEPT !.held_funds = @ + prev_amount],
                                          TRUE, "none")
                            [] disputed_target.record.transaction_type = "Deposit" ->
                                  Outcome([self EXCEPT !.available_funds = @ - prev_amount,
                                                       !.held_funds = @ + prev_amount],
                                          TRUE, "none")
                            [] OTHER -> Outcome(self, TRUE, "none")
                 ELSE Outcome(self, FALSE, "warn_dispute_no_target")
        ELSE Outcome(self, FALSE, "error_internal_state")

\* mutant: resolving a disputed Withdrawal releases the hold without a credit
transact_resolve_DepositOnly(self, prev_type, tx_amount) ==
    CASE prev_type = "Deposit" ->
            Outcome([self EXCEPT !.held_funds = @ - tx_amount,
                                 !.available_funds = @ + tx_amount],
                    TRUE, "none")
      [] prev_type = "Withdrawal" ->
            Outcome([self EXCEPT !.held_funds = @ - tx_amount], TRUE, "none")
      [] OTHER -> Outcome(self, FALSE, "none")

transact_resolve(self, prev_type, tx_amount) ==
    IF prev_type \in {"Withdrawal", "Deposit"}
    THEN Outcome([self EXCEPT !.held_funds = @ - tx_amount,
                              !.available_funds = @ + tx_amount],
                 TRUE, "none")
    ELSE Outcome(self, FALSE, "none")

\* mutant: the chargeback forgets to lock the client
transact_chargeback_NoLock(self, prev_type, tx_amount) ==
    IF prev_type \in {"Withdrawal", "Deposit"}
    THEN Outcome([self EXCEPT !.held_funds = @ - tx_amount], TRUE, "none")
    ELSE Outcome(self, FALSE, "none")

\* mutant: the chargeback locks the client and keeps the funds held
transact_chargeback_KeepsHeld(self, prev_type, tx_amount) ==
    IF prev_type \in {"Withdrawal", "Deposit"}
    THEN Outcome([self EXCEPT !.locked = TRUE], TRUE, "none")
    ELSE Outcome(self, FALSE, "none")

\* mutant: the chargeback also takes the amount from the available funds
transact_chargeback_DebitsAvailable(self, prev_type, tx_amount) ==
    IF prev_type \in {"Withdrawal", "Deposit"}
    THEN Outcome([self EXCEPT !.held_funds = @ - tx_amount,
                              !.available_funds = @ - tx_amount,
                              !.locked = TRUE],
                 TRUE, "none")
    ELSE Outcome(self, FALSE, "none")

transact_chargeback(self, prev_type, tx_amount) ==
    IF prev_type \in {"Withdrawal", "Deposit"}
    THEN Outcome([self EXCEPT !.held_funds = @ - tx_amount, !.locked = TRUE],
                 TRUE, "none")
    ELSE Outcome(self, FALSE, "none")

transaction_resolution(self, resolution) ==
    LET tx_id == resolution.record.transaction_id
    IN  IF tx_id \in DOMAIN self.client_transactions
        THEN LET all_prev_record == self.client_transactions[tx_id]
                 found == FindPosted(all_prev_record)
             IN  IF found # 0
                 THEN LET prev_record == all_prev_record[found]
                      IN  CASE resolution.record.transaction_type = "Resolve" ->
                                  transact_resolve(self, prev_record.record.transaction_type,
                                                   prev_record.record.amount)
                            [] resolution.record.transaction_type = "Chargeback" ->
                                  transact_chargeback(self, prev_record.record.transaction_type,
                                                      prev_record.record.amount)
                            [] OTHER -> Outcome(self, FALSE, "none")
                 ELSE Outcome(self, FALSE, "error_resolve_no_target")
        ELSE Outcome(self, FALSE, "error_internal_state")

\* the length of the history of a transaction id, 0 when the id is unknown
HistoryLen(self, tx_id) ==
    IF tx_id \in DOMAIN self.client_transactions
    THEN Len(self.client_transactions[tx_id])
    ELSE 0

\* mutant: a posted tx_id may be posted once more
IsOriginalTxId_AllowsReuse(len) == len <= 1

IsOriginalTxId(len) == len = 0

\* mutant: any tx_id with a history may be disputed
DisputeAllowed_AnyHistory(len) == len >= 1

\* mutant: a Dispute is let through for a tx_id that has no history
DisputeAllowed_UnknownTx(len) == len <= 1

DisputeAllowed(len) == len = 1

\* mutant: a tx_id already resolved or charged back may be resolved again
ResolutionAllowed_Repeat(len) == len >= 2

ResolutionAllowed(len) == len = 2

transact(self, situated_record) ==
    LET tx_type == situated_record.record.transaction_type
        len == HistoryLen(self, situated_record.record.transaction_id)
    IN  CASE tx_type \in {"Withdrawal", "Deposit"} ->
                IF IsOriginalTxId(len)
                THEN transact_withdrawal_or_deposit(self, situated_record)
                ELSE Outcome(self, FALSE, "warn_tx_id_reuse")
          [] tx_type = "Dispute" /\ ~self.locked ->
                IF DisputeAllowed(len)
                THEN transact_dispute(self, situated_record)
                ELSE Outcome(self, FALSE, "warn_dispute_ignored")
          [] tx_type \in {"Resolve", "Chargeback"} /\ ~self.locked ->
                IF ResolutionAllowed(len)
                THEN transaction_resolution(self, situated_record)
                ELSE Outcome(self, FALSE, "warn_resolution_ignored")
          [] tx_type \in {"Resolve", "Chargeback", "Dispute"} /\ self.locked ->
                Outcome(self, FALSE, "warn_frozen")

\* mutant: the record is pushed whatever transact returned
add_transaction_AlwaysPush(self, situated_record) ==
    LET t == transact(self, situated_record)
    IN  Outcome(push_transaction(t.state, situated_record.record.transaction_id,
                                 situated_record),
                t.ret, t.log)

\* the method returns the record's counter; the Outcome keeps what transact
\* returned and logged, which the caller of add_transaction never sees
add_transaction(self, situated_record) ==
    LET tx_id == situated_record.record.transaction_id
        t == transact(self, situated_record)
    IN  IF t.ret
        THEN Outcome(push_transaction(t.state, tx_id, situated_record), TRUE, t.log)
        ELSE t

\* -------------------------------------------------------- the ledger store
\* the ClientState process_record hands the record to
ClientOf(client_map, client_id) ==
    IF client_id \in DOMAIN client_map THEN client_map[client_id] ELSE ClientState_new(client_id)

\* mutant: a client seen first replaces the map instead of joining it
process_record_Replaces(situated_record, client_map) ==
    LET client_id == situated_record.record.client_id
    IN  IF client_id \in DOMAIN client_map
        THEN [client_map EXCEPT ![client_id] = add_transaction(@, situated_record).state]
        ELSE MapInsert(EmptyMap, client_id,
                       add_transaction(ClientState_new(client_id), situated_record).state)

\* mutant: every record starts from a new ClientState, known client or not
process_record_Recreates(situated_record, client_map) ==
    LET client_id == situated_record.record.client_id
    IN  MapInsert(client_map, client_id,
                  add_transaction(ClientState_new(client_id), situated_record).state)

process_record(situated_record, client_map) ==
    LET client_id == situated_record.record.client_id
    IN  IF client_id \in DOMAIN client_map
        THEN [client_map EXCEPT ![client_id] = add_transaction(@, situated_record).state]
        ELSE MapInsert(client_map, client_id,
                       add_transaction(ClientState_new(client_id), situated_record).state)

\* what the record's own handling returned and logged
record_outcome(situated_record, client_map) ==
    add_transaction(ClientOf(client_map, situated_record.record.client_id), situated_record)

\* ------------------------------------------------------------- the output
NoOutput == [header |-> FALSE, rows |-> {}]

\* HashMap::keys iterates in an unspecified order: the rows are kept as a set
write_client_state(client_map) ==
    [header |-> TRUE,
     rows |-> {[client |-> client_map[x].client_id,
                available |-> get_available_funds(client_map[x]),
                held |-> get_held_funds(client_map[x]),
                total |-> get_total_funds(client_map[x]),
                locked |-> is_locked(client_map[x])] : x \in DOMAIN client_map}]

\* mutant: the snapshot is written whatever play_with_money returned
main_output_Always(result_ok, client_map) == write_client_state(client_map)

\* main: the snapshot is written when play_with_money returned Ok
main_output(result_ok, client_map) ==
    IF result_ok THEN write_client_state(client_map) ELSE NoOutput

\* ------------------------------------------------------------------ state
VARIABLES
    pc,        \* where main is: "start", "reading", "done", "failed"
    clients,   \* HashMap<u16, ClientState>
    counter,   \* the position enumerate() gives the next record
    output,    \* what has been written to stdout
    last,      \* <<>>, or one entry for the record handled last: the record,
               \* what transact returned and logged, and the ClientState it
               \* was applied to (a fresh one for a client seen first)
    shadow,         \* the HashMap of a second run, on the same stream with one
                    \* record removed (used by SpecReplay only)
    shadowCounter,  \* the position of the next record in the second run
    removed,        \* <<>>, or one entry for the record the second run lacks
    pending         \* per client, the records the first run has read and the
                    \* second run has still to read (used by SpecInterleave only)

vars == <<pc, clients, counter, output, last, shadow, shadowCounter, removed, pending>>

replayVars == <<shadow, shadowCounter, removed, pending>>

Init ==
    /\ pc = "start"
    /\ clients = EmptyMap
    /\ counter = 0
    /\ output = NoOutput
    /\ last = <<>>
    /\ shadow = EmptyMap
    /\ shadowCounter = 0
    /\ removed = <<>>
    /\ pending = [c \in ClientIds |-> <<>>]

\* validate_input and get_reader succeed: the reader is open
OpenInput ==
    /\ pc = "start"
    /\ pc' = "reading"
    /\ UNCHANGED <<clients, counter, output, last, replayVars>>

\* validate_input fails (no argument, or no such path) or get_reader fails:
\* play_with_money returns Err and main logs it
InputError ==
    /\ pc = "start"
    /\ pc' = "failed"
    /\ output' = main_output(FALSE, clients)
    /\ UNCHANGED <<clients, counter, last, replayVars>>

\* one iteration of the loop of play_with_money on a well-formed record: the
\* record is situated at the current position and processed
Handle(record) ==
    /\ pc = "reading"
    /\ counter < MaxRecords
    /\ LET situated_record == SituatedRecord(counter, record)
           o == record_outcome(situated_record, clients)
       IN  /\ clients' = process_record(situated_record, clients)
           /\ last' = <<[record |-> record, ret |-> o.ret, log |-> o.log,
                          before |-> ClientOf(clients, record.client_id)]>>
    /\ counter' = counter + 1
    /\ UNCHANGED <<pc, output>>

\* the reader yields a well-formed record
ReadRecord(record) ==
    /\ Handle(record)
    /\ UNCHANGED replayVars

\* the reader yields a row that does not deserialize: `record?` returns Err
MalformedRecord ==
    /\ pc = "reading"
    /\ pc' = "failed"
    /\ output' = main_output(FALSE, clients)
    /\ UNCHANGED <<clients, counter, last, replayVars>>

\* the reader is exhausted: play_with_money returns Ok, main writes the snapshot
EndOfInput ==
    /\ pc = "reading"
    /\ pc' = "done"
    /\ output' = main_output(TRUE, clients)
    /\ UNCHANGED <<clients, counter, last, replayVars>>

Next ==
    \/ OpenInput
    \/ InputError
    \/ \E record \in Record : ReadRecord(record)
    \/ MalformedRecord
    \/ EndOfInput

Spec == Init /\ [][Next]_vars

\* ------------------------------------------------ two runs, one record apart
\* the rejections the error-handling design lists: an insufficient-funds
\* Withdrawal, a Deposit / Withdrawal reusing a tx_id, a Dispute whose tx_id
\* is not in posted state, a Resolve / Chargeback whose tx_id is not in
\* disputed state, and a Withdrawal / Dispute / Resolve / Chargeback for a
\* locked client
SemanticallyRejected(self, record) ==
    LET len == HistoryLen(self, record.transaction_id)
        tx_type == record.transaction_type
    IN  \/ tx_type = "Withdrawal" /\ ~self.locked /\ len = 0
              /\ record.amount > self.available_funds
        \/ tx_type \in {"Withdrawal", "Deposit"} /\ len # 0
        \/ tx_type = "Dispute" /\ len # 1
        \/ tx_type \in {"Resolve", "Chargeback"} /\ len # 2
        \/ tx_type \in {"Withdrawal", "Dispute", "Resolve", "Chargeback"} /\ self.locked

\* the records of the two runs: those of the first ReplayClients clients
ReplayRecords == {record \in Record : record.client_id <= ReplayClients}

\* one iteration of the loop of play_with_money in the first run
ReplayHandle(record) ==
    /\ pc = "reading"
    /\ counter < ReplayMaxRecords
    /\ clients' = process_record(SituatedRecord(counter, record), clients)
    /\ counter' = counter + 1
    /\ UNCHANGED <<pc, output, last>>

\* both runs read the same record, each at its own position
ReplayRecord(record) ==
    /\ ReplayHandle(record)
    /\ shadow' = process_record(SituatedRecord(shadowCounter, record), shadow)
    /\ shadowCounter' = shadowCounter + 1
    /\ UNCHANGED <<removed, pending>>

\* the first run reads a record it rejects; the stream of the second run
\* does not hold that record
ReplayRemoved(record) ==
    /\ removed = <<>>
    /\ SemanticallyRejected(ClientOf(clients, record.client_id), record)
    /\ ReplayHandle(record)
    /\ removed' = <<[record |-> record,
                     ret |-> record_outcome(SituatedRecord(counter, record), clients).ret,
                     before |-> ClientOf(clients, record.client_id)]>>
    /\ UNCHANGED <<shadow, shadowCounter, pending>>

NextReplay ==
    \/ OpenInput
    \/ \E record \in ReplayRecords : ReplayRecord(record)
    \/ \E record \in ReplayRecords : ReplayRemoved(record)

SpecReplay == Init /\ [][NextReplay]_vars

\* ------------------------------- two runs, the same records per client
\* The first run reads a stream to its end.  The second run reads a stream
\* holding the same records, those of each client in the same order, with the
\* records of different clients interleaved in any other way.

\* one iteration of the loop of play_with_money in the first run
InterleaveFirst(record) ==
    /\ pc = "reading"
    /\ counter < InterleaveMaxRecords
    /\ clients' = process_record(SituatedRecord(counter, record), clients)
    /\ counter' = counter + 1
    /\ pending' = [pending EXCEPT ![record.client_id] = Append(@, record)]
    /\ UNCHANGED <<pc, output, last, shadow, shadowCounter, removed>>

\* the first run reaches the end of its stream and writes its snapshot
InterleaveEnd ==
    /\ EndOfInput
    /\ counter > 0

\* one iteration of the loop in the second run: its next record is the
\* oldest unread record of some client
InterleaveSecond(c) ==
    /\ pc = "done"
    /\ pending[c] # <<>>
    /\ shadow' = process_record(SituatedRecord(shadowCounter, Head(pending[c])), shadow)
    /\ shadowCounter' = shadowCounter + 1
    /\ pending' = [pending EXCEPT ![c] = Tail(@)]
    /\ UNCHANGED <<pc, clients, counter, output, last, removed>>

NextInterleave ==
    \/ OpenInput
    \/ \E record \in Record : InterleaveFirst(record)
    \/ InterleaveEnd
    \/ \E c \in ClientIds : InterleaveSecond(c)

SpecInterleave == Init /\ [][NextInterleave]_vars

\* ------------------------------------------------- vocabulary of the claims
\* the three fields the snapshot reports of a ClientState
Balances(self) == <<self.available_funds, self.held_funds, self.locked>>

\* a record has been handled, and its entry is last[1]
Handled == Len(last) = 1

\* the ClientState of the client of the record handled last, after it
After == clients[last[1].record.client_id]

\* the step handles one record
HandlesRecord == counter' = counter + 1

\* the history of tx_id ends in a record of the given type
EndsIn(self, tx_id, tx_type) ==
    /\ tx_id \in DOMAIN self.client_transactions
    /\ Len(self.client_transactions[tx_id]) > 0
    /\ self.client_transactions[tx_id][Len(self.client_transactions[tx_id])]
           .record.transaction_type = tx_type

\* the number of posted (Deposit / Withdrawal) records in the history of tx_id
PostedCount(self, tx_id) ==
    Cardinality({i \in 1..HistoryLen(self, tx_id) :
        self.client_transactions[tx_id][i].record.transaction_type
            \in {"Withdrawal", "Deposit"}})

\* every record kept in the histories of the client has an amount >= 0
NonNegativeHistory(self) ==
    \A t \in DOMAIN self.client_transactions :
        \A i \in 1..Len(self.client_transactions[t]) :
            self.client_transactions[t][i].record.amount >= 0

\* ------------------------------------------------------------------ claims

\* C1: when a Dispute on tx_id is accepted and the very next record, a Resolve
\* on the same tx_id of the same client, is accepted too, available and held
\* after the Resolve equal their values before the Dispute, for a disputed
\* Deposit and a disputed Withdrawal alike.  Stated for clients whose posted
\* amounts are all non-negative, the case most favourable to the claim.
C1_DisputeResolveSymmetry ==
    [][(/\ HandlesRecord
        /\ Handled
        /\ NonNegativeHistory(last[1].before)
        /\ last[1].record.transaction_type = "Dispute"
        /\ last[1].ret
        /\ last'[1].record.transaction_type = "Resolve"
        /\ last'[1].ret
        /\ last'[1].record.client_id = last[1].record.client_id
        /\ last'[1].record.transaction_id = last[1].record.transaction_id)
       => /\ clients'[last[1].record.client_id].available_funds
                = last[1].before.available_funds
          /\ clients'[last[1].record.client_id].held_funds
                = last[1].before.held_funds]_vars

\* C2: a Withdrawal, Dispute, Resolve or Chargeback handled for a locked
\* client is not accepted: it is not appended to the history of its tx_id and
\* available, held and locked stay as they were.  Stated for records and
\* histories of non-negative amounts.
C2_LockedRejectsRestricted ==
    (/\ Handled
     /\ NonNegativeHistory(last[1].before)
     /\ last[1].record.amount >= 0
     /\ last[1].before.locked
     /\ last[1].record.transaction_type \in {"Withdrawal", "Dispute", "Resolve", "Chargeback"})
    => /\ ~last[1].ret
       /\ After.client_transactions = last[1].before.client_transactions
       /\ Balances(After) = Balances(last[1].before)

\* C3: the history of a tx_id never holds more than one Deposit / Withdrawal,
\* and a Deposit or Withdrawal whose tx_id already has a history is rejected:
\* not appended, and available, held and locked unchanged.
C3_NoDuplicatePosting ==
    /\ \A c \in DOMAIN clients : \A t \in DOMAIN clients[c].client_transactions :
           PostedCount(clients[c], t) <= 1
    /\ (/\ Handled
        /\ last[1].record.transaction_type \in {"Withdrawal", "Deposit"}
        /\ HistoryLen(last[1].before, last[1].record.transaction_id) # 0)
       => /\ ~last[1].ret
          /\ After = last[1].before

\* a Deposit of a positive amount has reused the tx_id of a posted Deposit
C3_Witness ==
    /\ Handled
    /\ last[1].record.transaction_type = "Deposit"
    /\ last[1].record.amount > 0
    /\ EndsIn(last[1].before, last[1].record.transaction_id, "Deposit")
    /\ last[1].before.available_funds > 0
    /\ ~last[1].ret
    /\ After.available_funds = last[1].before.available_funds

\* C4: locked never goes back to false, it becomes true only when a
\* Chargeback is accepted for an unlocked client on a tx_id whose history has
\* length 2, and a client is locked iff exactly one of its histories ends in
\* a Chargeback.
C4_LockedOnceByChargeback ==
    /\ \A c \in DOMAIN clients :
           clients[c].locked <=>
               Cardinality({t \in DOMAIN clients[c].client_transactions :
                                EndsIn(clients[c], t, "Chargeback")}) = 1
    /\ Handled =>
           /\ last[1].before.locked => After.locked
           /\ (~last[1].before.locked /\ After.locked) =>
                  /\ last[1].record.transaction_type = "Chargeback"
                  /\ last[1].ret
                  /\ HistoryLen(last[1].before, last[1].record.transaction_id) = 2

\* a second Chargeback has been handled for a client that was locked already
C4_Witness ==
    /\ Handled
    /\ last[1].before.locked
    /\ After.locked
    /\ last[1].record.transaction_type = "Chargeback"
    /\ ~last[1].ret

\* the two runs report the same available, held and locked for every client
\* (a client one run never saw counts as a fresh ClientState)
SameSnapshot ==
    \A c \in ClientIds :
        Balances(ClientOf(clients, c)) = Balances(ClientOf(shadow, c))

\* C5 as stated: removing one semantically rejected record from the stream
\* leaves the final available, held and locked of every client the same.
\* Stated for streams of non-negative amounts.
C5_RejectionsSilent ==
    (/\ removed # <<>>
     /\ removed[1].record.amount >= 0
     /\ \A c \in DOMAIN clients : NonNegativeHistory(clients[c])
     /\ \A c \in DOMAIN shadow : NonNegativeHistory(shadow[c]))
    => SameSnapshot

\* C5 as amended: removing one record that was rejected without being appended
\* to a history (transact returned false) leaves the final available, held
\* and locked of every client the same.
C5_UnrecordedRejectionsSilent ==
    (removed # <<>> /\ ~removed[1].ret) => SameSnapshot

\* a Dispute rejected for a locked client was removed, and the Deposit that
\* follows it in the stream has been handled by both runs
C5_Witness ==
    /\ removed # <<>>
    /\ ~removed[1].ret
    /\ removed[1].before.locked
    /\ removed[1].record.transaction_type = "Dispute"
    /\ shadowCounter = ReplayMaxRecords - 1
    /\ counter = ReplayMaxRecords
    /\ \E c \in DOMAIN clients :
           /\ clients[c].available_funds > removed[1].before.available_funds
           /\ c = removed[1].record.client_id

\* C6: a semantically rejected record leaves available, held and locked of
\* its client as they were.
C6_RejectionKeepsBalances ==
    (Handled /\ SemanticallyRejected(last[1].before, last[1].record))
    => Balances(After) = Balances(last[1].before)

\* a Withdrawal of more than the (positive) available funds has been handled
C6_Witness ==
    /\ Handled
    /\ last[1].record.transaction_type = "Withdrawal"
    /\ last[1].log = "warn_insufficient_funds"
    /\ last[1].before.available_funds > 0
    /\ last[1].record.amount > last[1].before.available_funds

\* C7: a Withdrawal with a fresh tx_id for an unlocked client whose amount
\* exceeds available leaves available and held unchanged and is appended as
\* the first record of its history; a Dispute on a tx_id whose history is one
\* Withdrawal, for an unlocked client, is accepted, adds the amount of the
\* Withdrawal to held and leaves available unchanged.
C7_FailedWithdrawalIsPosted ==
    /\ (/\ Handled
        /\ last[1].record.transaction_type = "Withdrawal"
        /\ ~last[1].before.locked
        /\ HistoryLen(last[1].before, last[1].record.transaction_id) = 0
        /\ last[1].record.amount > last[1].before.available_funds)
       => /\ After.available_funds = last[1].before.available_funds
          /\ After.held_funds = last[1].before.held_funds
          /\ HistoryLen(After, last[1].record.transaction_id) = 1
          /\ After.client_transactions[last[1].record.transaction_id][1].record
                 = last[1].record
    /\ (/\ Handled
        /\ last[1].record.transaction_type = "Dispute"
        /\ ~last[1].before.locked
        /\ HistoryLen(last[1].before, last[1].record.transaction_id) = 1
        /\ EndsIn(last[1].before, last[1].record.transaction_id, "Withdrawal"))
       => /\ last[1].ret
          /\ After.held_funds = last[1].before.held_funds
                 + last[1].before.client_transactions
                       [last[1].record.transaction_id][1].record.amount
          /\ After.available_funds = last[1].before.available_funds
          /\ HistoryLen(After, last[1].record.transaction_id) = 2

\* the only posted record of the client is a Withdrawal of a positive amount,
\* made with no funds at all, and the Dispute on it has been accepted
C7_Witness ==
    /\ Handled
    /\ last[1].record.transaction_type = "Dispute"
    /\ last[1].ret
    /\ DOMAIN last[1].before.client_transactions = {last[1].record.transaction_id}
    /\ EndsIn(last[1].before, last[1].record.transaction_id, "Withdrawal")
    /\ last[1].before.client_transactions
           [last[1].record.transaction_id][1].record.amount > 0
    /\ last[1].before.available_funds = 0
    /\ After.held_funds > 0

Unstamped(self) ==
    [self EXCEPT !.client_transactions =
        [t \in DOMAIN @ |-> [i \in 1..Len(@[t]) |-> @[t][i].record]]]

UnstampedMap(client_map) == [c \in DOMAIN client_map |-> Unstamped(client_map[c])]

\* the next record of the stream leaves every client but its own untouched
OthersUntouched ==
    (pc = "reading" /\ counter < MaxRecords) =>
        \A record \in Record :
            LET m == process_record(SituatedRecord(counter, record), clients)
            IN  /\ DOMAIN m = DOMAIN clients \cup {record.client_id}
                /\ \A c \in DOMAIN clients :
                       c # record.client_id => m[c] = clients[c]

\* both runs have read their whole stream
BothRunsDone == pc = "done" /\ \A c \in ClientIds : pending[c] = <<>>

\* C9 as stated: a record leaves the ClientState of every other client
\* unchanged, and two streams that hold the same records per client, with the
\* records of different clients interleaved in any order, end in the same
\* ClientState (available, held, locked and histories) for every client.
\* Stated for streams of non-negative amounts.
C9_InterleavingSameLedger ==
    /\ OthersUntouched
    /\ (BothRunsDone /\ \A c \in DOMAIN clients : NonNegativeHistory(clients[c]))
           => shadow = clients

\* C9 as amended: the two streams end, for every client, in the same
\* available, held and locked and in the same histories up to the position
\* (monotonic_counter) stamped on each record, which is the record's place in
\* the whole stream and so differs between the interleavings.
C9_InterleavingSameLedgerModuloPosition ==
    /\ OthersUntouched
    /\ BothRunsDone => UnstampedMap(shadow) = UnstampedMap(clients)

\* the two runs have read the records of two clients in different orders:
\* the positions stamped on their histories differ, a Deposit was disputed
C9_Witness ==
    /\ BothRunsDone
    /\ counter = InterleaveMaxRecords
    /\ DOMAIN clients = ClientIds
    /\ shadow # clients
    /\ \E c \in DOMAIN clients : clients[c].held_funds > 0

\* C10: when the input is missing or a record is malformed, nothing is
\* written, whatever was applied before; the snapshot is written only when
\* the whole stream was read without error.
C10_NoOutputOnFatalError ==
    /\ pc = "failed" => output = NoOutput
    /\ output # NoOutput => pc = "done"
    /\ pc = "done" => output = write_client_state(clients)

\* a malformed record stopped the run after a Deposit had been applied
C10_Witness ==
    /\ pc = "failed"
    /\ output = NoOutput
    /\ \E c \in DOMAIN clients : clients[c].available_funds > 0

\* C11: for every client, after every record, the total the snapshot reports
\* equals available + held (of the ClientState and of the row itself).
C11_BalanceIdentity ==
    /\ \A row \in write_client_state(clients).rows :
           /\ row.client \in DOMAIN clients
           /\ row.total = clients[row.client].available_funds
                              + clients[row.client].held_funds
           /\ row.total = row.available + row.held
    /\ \A row \in output.rows : row.total = row.available + row.held

\* the snapshot written at the end has a row with funds held and available
C11_Witness ==
    /\ pc = "done"
    /\ \E row \in output.rows : row.held > 0 /\ row.available > 0

\* the history is one of <<>>, <<posted>>, <<posted, Dispute>>,
\* <<posted, Dispute, Resolve or Chargeback>>
FollowsPattern(history) ==
    /\ Len(history) <= 3
    /\ Len(history) >= 1 => history[1].record.transaction_type \in {"Deposit", "Withdrawal"}
    /\ Len(history) >= 2 => history[2].record.transaction_type = "Dispute"
    /\ Len(history) >= 3 => history[3].record.transaction_type \in {"Resolve", "Chargeback"}

\* the first sequence is a prefix of the second
IsPrefix(short, long) ==
    /\ Len(short) <= Len(long)
    /\ \A i \in 1..Len(short) : long[i] = short[i]

\* C12: every history follows the pattern [Deposit or Withdrawal, Dispute,
\* Resolve or Chargeback] and so has at most 3 records, a record only ever
\* appends to the history of its own tx_id, and a tx_id whose history has 3
\* records accepts nothing more: the record is rejected, the ClientState stays.
C12_HistoryProgression ==
    /\ \A c \in DOMAIN clients : \A t \in DOMAIN clients[c].client_transactions :
           FollowsPattern(clients[c].client_transactions[t])
    /\ Handled =>
           /\ DOMAIN last[1].before.client_transactions
                  \subseteq DOMAIN After.client_transactions
           /\ \A t \in DOMAIN last[1].before.client_transactions :
                  /\ IsPrefix(last[1].before.client_transactions[t],
                              After.client_transactions[t])
                  /\ t # last[1].record.transaction_id =>
                         After.client_transactions[t]
                             = last[1].before.client_transactions[t]
           /\ HistoryLen(After, last[1].record.transaction_id)
                  <= HistoryLen(last[1].before, last[1].record.transaction_id) + 1
           /\ HistoryLen(last[1].before, last[1].record.transaction_id) = 3 =>
                  /\ ~last[1].ret
                  /\ After = last[1].before

\* a Dispute was handled for a tx_id that had been resolved
C12_Witness ==
    /\ Handled
    /\ last[1].record.transaction_type = "Dispute"
    /\ EndsIn(last[1].before, last[1].record.transaction_id, "Resolve")
    /\ HistoryLen(After, last[1].record.transaction_id) = 3

\* the amount of the posted record of tx_id
PostedAmount(self, tx_id) == self.client_transactions[tx_id][1].record.amount

\* C13: a Dispute for an unlocked client on a tx_id whose history has one
\* record is accepted and moves the amount of that posted record, whatever
\* the amount field of the Dispute: a Withdrawal adds it to held and leaves
\* available, a Deposit takes it from available and adds it to held; locked
\* is unchanged.
C13_DisputeUsesPostedAmount ==
    (/\ Handled
     /\ last[1].record.transaction_type = "Dispute"
     /\ ~last[1].before.locked
     /\ HistoryLen(last[1].before, last[1].record.transaction_id) = 1)
    => LET tx_id == last[1].record.transaction_id
           prior == PostedAmount(last[1].before, tx_id)
       IN  /\ last[1].ret
           /\ After.locked = last[1].before.locked
           /\ After.held_funds = last[1].before.held_funds + prior
           /\ EndsIn(last[1].before, tx_id, "Withdrawal") =>
                  After.available_funds = last[1].before.available_funds
           /\ EndsIn(last[1].before, tx_id, "Deposit") =>
                  After.available_funds = last[1].before.available_funds - prior

\* scenario E with a Dispute that carries an amount of its own: a debited
\* Withdrawal is disputed and its amount, not the Dispute's, is held
C13_Witness ==
    /\ Handled
    /\ last[1].record.transaction_type = "Dispute"
    /\ last[1].ret
    /\ EndsIn(last[1].before, last[1].record.transaction_id, "Withdrawal")
    /\ PostedAmount(last[1].before, last[1].record.transaction_id) > 0
    /\ last[1].record.amount
           # PostedAmount(last[1].before, last[1].record.transaction_id)
    /\ last[1].record.amount # 0
    /\ After.available_funds > 0
    /\ After.held_funds = PostedAmount(last[1].before, last[1].record.transaction_id)

\* C14: a Chargeback for an unlocked client on a tx_id whose history has two
\* records is accepted, takes the posted record's amount from held, locks the
\* client and leaves available alone, for a posted Deposit and a posted
\* Withdrawal alike.
C14_ChargebackEffect ==
    (/\ Handled
     /\ last[1].record.transaction_type = "Chargeback"
     /\ ~last[1].before.locked
     /\ HistoryLen(last[1].before, last[1].record.transaction_id) = 2)
    => /\ last[1].ret
       /\ After.held_funds = last[1].before.held_funds
              - PostedAmount(last[1].before, last[1].record.transaction_id)
       /\ After.available_funds = last[1].before.available_funds
       /\ After.locked

\* scenario D: a Deposit is disputed and charged back, nothing is left and
\* the client is locked
C14_Witness ==
    /\ Handled
    /\ last[1].record.transaction_type = "Chargeback"
    /\ last[1].ret
    /\ HistoryLen(last[1].before, last[1].record.transaction_id) = 2
    /\ last[1].before.client_transactions[last[1].record.transaction_id][1]
           .record.transaction_type = "Deposit"
    /\ PostedAmount(last[1].before, last[1].record.transaction_id) > 0
    /\ After.available_funds = 0
    /\ After.held_funds = 0
    /\ After.locked

\* C15: a Resolve for an unlocked client on a tx_id whose history has two
\* records is accepted, takes the posted record's amount from held and adds
\* it to available, for a posted Deposit and a posted Withdrawal alike, so
\* the total and locked are as before the Resolve.
C15_ResolveEffect ==
    (/\ Handled
     /\ last[1].record.transaction_type = "Resolve"
     /\ ~last[1].before.locked
     /\ HistoryLen(last[1].before, last[1].record.transaction_id) = 2)
    => LET prior == PostedAmount(last[1].before, last[1].record.transaction_id)
       IN  /\ last[1].ret
           /\ After.held_funds = last[1].before.held_funds - prior
           /\ After.available_funds = last[1].before.available_funds + prior
           /\ get_total_funds(After) = get_total_funds(last[1].before)
           /\ After.locked = last[1].before.locked

\* a disputed Withdrawal that had been debited is resolved
C15_Witness ==
    /\ Handled
    /\ last[1].record.transaction_type = "Resolve"
    /\ last[1].ret
    /\ HistoryLen(last[1].before, last[1].record.transaction_id) = 2
    /\ last[1].before.client_transactions[last[1].record.transaction_id][1]
           .record.transaction_type = "Withdrawal"
    /\ PostedAmount(last[1].before, last[1].record.transaction_id) > 0
    /\ After.held_funds = 0
    /\ After.available_funds > last[1].before.available_funds

\* C16: a Withdrawal with a fresh tx_id for an unlocked client takes the
\* amount from available when amount <= available and leaves available alone
\* otherwise; held and locked stay; with an amount >= 0, available is >= 0
\* after every Withdrawal that changed it.
C16_WithdrawalEffect ==
    (/\ Handled
     /\ last[1].record.transaction_type = "Withdrawal"
     /\ ~last[1].before.locked
     /\ HistoryLen(last[1].before, last[1].record.transaction_id) = 0)
    => LET amount == last[1].record.amount
           available == last[1].before.available_funds
       IN  /\ amount <= available => After.available_funds = available - amount
           /\ ~(amount <= available) => After.available_funds = available
           /\ After.held_funds = last[1].before.held_funds
           /\ After.locked = last[1].before.locked
           /\ (amount >= 0 /\ After.available_funds # available) =>
                  After.available_funds >= 0

\* scenario A: a Withdrawal smaller than the deposited amount is debited
C16_Witness ==
    /\ Handled
    /\ last[1].record.transaction_type = "Withdrawal"
    /\ last[1].record.amount > 0
    /\ last[1].before.available_funds > last[1].record.amount
    /\ After.available_funds = last[1].before.available_funds - last[1].record.amount
    /\ After.held_funds = 0
    /\ ~After.locked

\* the ClientState a client has before any record: no funds, unlocked, no history
FreshLedger(client_id) ==
    [client_id |-> client_id, available_funds |-> 0, held_funds |-> 0,
     locked |-> FALSE, client_transactions |-> [t \in {} |-> <<>>]]

\* C17: the map holds one ClientState per client_id seen so far, under its
\* own key. A record adds the ClientState of its client when the client is
\* new, and that ClientState is the fresh one (no funds, unlocked, empty
\* history) when the record is rejected; a known client's ClientState is
\* carried on (its histories only grow, a rejected record leaves it as it
\* was); the other clients stay; no other step touches the map.
C17_OneLedgerPerClient ==
    [][/\ \A c \in DOMAIN clients' : clients'[c].client_id = c
       /\ ~HandlesRecord => clients' = clients
       /\ HandlesRecord =>
              LET c == last'[1].record.client_id
              IN  /\ DOMAIN clients' = DOMAIN clients \cup {c}
                  /\ \A d \in DOMAIN clients \ {c} : clients'[d] = clients[d]
                  /\ (c \notin DOMAIN clients /\ ~last'[1].ret) =>
                         clients'[c] = FreshLedger(c)
                  /\ (c \notin DOMAIN clients /\ last'[1].ret) =>
                         /\ DOMAIN clients'[c].client_transactions
                                = {last'[1].record.transaction_id}
                         /\ clients'[c].held_funds = 0
                         /\ ~clients'[c].locked
                  /\ c \in DOMAIN clients =>
                         /\ ~last'[1].ret => clients'[c] = clients[c]
                         /\ \A t \in DOMAIN clients[c].client_transactions :
                                /\ t \in DOMAIN clients'[c].client_transactions
                                /\ IsPrefix(clients[c].client_transactions[t],
                                            clients'[c].client_transactions[t])
      ]_vars

\* the second record is a Dispute for a client not seen before: it is
\* rejected, and the client is in the map with a fresh ClientState next to
\* the client of the first record
C17_Witness ==
    /\ Handled
    /\ counter = 2
    /\ last[1].record.transaction_type = "Dispute"
    /\ ~last[1].ret
    /\ Cardinality(DOMAIN clients) = 2
    /\ After = FreshLedger(last[1].record.client_id)
    /\ \E d \in DOMAIN clients : DOMAIN clients[d].client_transactions # {}

\* the record is a Dispute, Resolve or Chargeback that passes the lock check
\* and the history-length check of transact
PassesChecks(self, record) ==
    /\ ~self.locked
    /\ \/ /\ record.transaction_type = "Dispute"
          /\ DisputeAllowed(HistoryLen(self, record.transaction_id))
       \/ /\ record.transaction_type \in {"Resolve", "Chargeback"}
          /\ ResolutionAllowed(HistoryLen(self, record.transaction_id))

\* C18: no record ever takes the "no qualifying prior transaction" or the
\* "missing history" path of transact_dispute / transaction_resolution: a
\* Dispute, Resolve or Chargeback that passes the lock and history-length
\* checks finds the history of its tx_id, whose first record is a Deposit or
\* a Withdrawal, and is accepted.
C18_DefensiveBranchUnreachable ==
    Handled =>
        /\ last[1].log \notin {"warn_dispute_no_target", "error_resolve_no_target",
                               "error_internal_state"}
        /\ PassesChecks(last[1].before, last[1].record) =>
               /\ last[1].record.transaction_id
                      \in DOMAIN last[1].before.client_transactions
               /\ last[1].before.client_transactions[last[1].record.transaction_id][1]
                      .record.transaction_type \in {"Deposit", "Withdrawal"}
               /\ FindPosted(last[1].before.client_transactions
                                 [last[1].record.transaction_id]) = 1
               /\ last[1].ret

\* a Chargeback passed the checks, found the disputed Withdrawal and was applied
C18_Witness ==
    /\ Handled
    /\ PassesChecks(last[1].before, last[1].record)
    /\ last[1].record.transaction_type = "Chargeback"
    /\ last[1].before.client_transactions[last[1].record.transaction_id][1]
           .record.transaction_type = "Withdrawal"
    /\ last[1].log = "none"
    /\ HistoryLen(After, last[1].record.transaction_id) = 3

\* the last record is an accepted Dispute of a posted record of the given type
DisputedA(tx_type) ==
    /\ Handled
    /\ last[1].record.transaction_type = "Dispute"
    /\ last[1].ret
    /\ HistoryLen(last[1].before, last[1].record.transaction_id) = 1
    /\ last[1].before.client_transactions[last[1].record.transaction_id][1]
           .record.transaction_type = tx_type

\* C19 as stated, by its example: a Withdrawal with a positive amount, the
\* first record of its client, fails for insufficient funds; disputing it is
\* to leave held or available negative.
C19_FailedWithdrawalDisputeGoesNegative ==
    (/\ DisputedA("Withdrawal")
     /\ counter = 2
     /\ DOMAIN last[1].before.client_transactions = {last[1].record.transaction_id}
     /\ PostedAmount(last[1].before, last[1].record.transaction_id) > 0
     /\ last[1].before.available_funds = 0
     /\ last[1].before.held_funds = 0)
    => (After.held_funds < 0 \/ After.available_funds < 0)

\* C19: the balances are not clamped at zero. A Dispute of a Deposit takes
\* the deposited amount from available even when less is left, so available
\* goes negative with amounts >= 0 only; a Dispute of a Withdrawal with an
\* amount >= 0, debited or failed, lowers neither held nor available.
C19_NotClampedAtZero ==
    /\ DisputedA("Deposit") =>
           After.available_funds = last[1].before.available_funds
               - PostedAmount(last[1].before, last[1].record.transaction_id)
    /\ (/\ DisputedA("Withdrawal")
        /\ PostedAmount(last[1].before, last[1].record.transaction_id) >= 0)
       => /\ After.held_funds >= last[1].before.held_funds
          /\ After.available_funds = last[1].before.available_funds

\* Deposit, Withdrawal of what was deposited, Dispute of the Deposit: three
\* accepted records with amounts >= 0 and available is negative
C19_Witness ==
    /\ DisputedA("Deposit")
    /\ counter = 3
    /\ NonNegativeHistory(After)
    /\ Cardinality(DOMAIN After.client_transactions) = 2
    /\ \E t \in DOMAIN After.client_transactions :
           /\ Len(After.client_transactions[t]) = 1
           /\ After.client_transactions[t][1].record.transaction_type = "Withdrawal"
    /\ last[1].before.available_funds >= 0
    /\ After.available_funds < 0

\* the sum of the posted amounts of the tx_ids in tx_ids that are disputed
\* now, i.e. whose history has two records
RECURSIVE DisputedSum(_, _)
DisputedSum(self, tx_ids) ==
    IF tx_ids = {}
    THEN 0
    ELSE LET t == CHOOSE x \in tx_ids : TRUE
         IN  (IF HistoryLen(self, t) = 2 THEN PostedAmount(self, t) ELSE 0)
                 + DisputedSum(self, tx_ids \ {t})

\* C20: in every reachable state the held funds of a client are the sum of
\* the posted amounts of its tx_ids under dispute (history of two records);
\* so with amounts >= 0 held is never negative, and no record handled for a
\* locked client changes held.
C20_HeldIsDisputedSum ==
    /\ \A c \in DOMAIN clients :
           /\ clients[c].held_funds
                  = DisputedSum(clients[c], DOMAIN clients[c].client_transactions)
           /\ NonNegativeHistory(clients[c]) => clients[c].held_funds >= 0
    /\ (Handled /\ last[1].before.locked) =>
           After.held_funds = last[1].before.held_funds

\* two Deposits of different amounts are both under dispute and held is
\* their sum
C20_Witness ==
    \E c \in DOMAIN clients :
        /\ DOMAIN clients[c].client_transactions = TxIds
        /\ \A t \in TxIds : HistoryLen(clients[c], t) = 2
        /\ \A t \in TxIds : PostedAmount(clients[c], t) > 0
        /\ \E t, u \in TxIds : PostedAmount(clients[c], t) # PostedAmount(clients[c], u)
        /\ clients[c].held_funds = MaxAmount + (MaxAmount - 1)

====
